---- MODULE Spec2Model ----
(***************************************************************************)
(* Two-pass assembler of sbasm (src/Assembler/Assembler.py) and its error  *)
(* reporter (src/Assembler/ErrorCodes.py).                                 *)
(*                                                                         *)
(* A source line is a record of the fields the regular expressions of      *)
(* Assembler.py capture.  A token (a register, a symbol name, a numeral)   *)
(* is the sequence of its characters, so that int(token, 0), the regex     *)
(* character classes and the dictionary lookups are computed from the text *)
(* of the token.  Alphabet of a token: ASCII letters, digits, "_" and "$". *)
(***************************************************************************)
EXTENDS Integers, Sequences, FiniteSets, TLC

(***************************************************************************)
(* Bounds of the model.                                                    *)
(***************************************************************************)
\* longest input file, in lines
MaxLines == 3

\* longest input file of the specification of the labels, in lines
MaxLabelLines == 4

(***************************************************************************)
(* Integer helpers: Python's unbounded non-negative ints with &, |, <<, >> *)
(***************************************************************************)
RECURSIVE Pow2(_)
Pow2(n) == IF n = 0 THEN 1 ELSE 2 * Pow2(n - 1)

Shl(a, n) == a * Pow2(n)

Shr(a, n) == a \div Pow2(n)

RECURSIVE BitAnd(_, _)
BitAnd(a, b) ==
    IF a = 0 \/ b = 0 THEN 0
    ELSE (IF a % 2 = 1 /\ b % 2 = 1 THEN 1 ELSE 0) + 2 * BitAnd(a \div 2, b \div 2)

RECURSIVE BitOr(_, _)
BitOr(a, b) ==
    IF a = 0 THEN b
    ELSE IF b = 0 THEN a
    ELSE (IF a % 2 = 1 \/ b % 2 = 1 THEN 1 ELSE 0) + 2 * BitOr(a \div 2, b \div 2)

(***************************************************************************)
(* Tokens and Python's int(text, 0).                                       *)
(***************************************************************************)
Digits == {"0", "1", "2", "3", "4", "5", "6", "7", "8", "9"}

Letters == {"a", "b", "c", "d", "e", "f", "g", "h", "i", "j", "k", "l", "m",
            "n", "o", "p", "q", "r", "s", "t", "u", "v", "w", "x", "y", "z",
            "A", "B", "C", "D", "E", "F", "G", "H", "I", "J", "K", "L", "M",
            "N", "O", "P", "Q", "R", "S", "T", "U", "V", "W", "X", "Y", "Z"}

\* the regex class \w
WordChars == Digits \cup Letters \cup {"_"}

\* the regex class [a-zA-Z_$]
IdentStart == Letters \cup {"_", "$"}

\* the regex class [a-zA-Z_$0-9]
IdentChars == IdentStart \cup Digits

\* value of a character as a digit; 99 for a character that is no digit
DigitVal(c) ==
    CASE c = "0" -> 0 [] c = "1" -> 1 [] c = "2" -> 2 [] c = "3" -> 3
      [] c = "4" -> 4 [] c = "5" -> 5 [] c = "6" -> 6 [] c = "7" -> 7
      [] c = "8" -> 8 [] c = "9" -> 9
      [] c \in {"a", "A"} -> 10 [] c \in {"b", "B"} -> 11
      [] c \in {"c", "C"} -> 12 [] c \in {"d", "D"} -> 13
      [] c \in {"e", "E"} -> 14 [] c \in {"f", "F"} -> 15
      [] OTHER -> 99

RECURSIVE DropUnderscores(_)
DropUnderscores(s) ==
    IF s = <<>> THEN <<>>
    ELSE IF Head(s) = "_" THEN DropUnderscores(Tail(s))
    ELSE <<Head(s)>> \o DropUnderscores(Tail(s))

RECURSIVE DigitsValue(_, _, _)
DigitsValue(s, base, acc) ==
    IF s = <<>> THEN acc
    ELSE DigitsValue(Tail(s), base, acc * base + DigitVal(Head(s)))

\* int(s, 0): [ok |-> TRUE, val |-> n], or ok = FALSE where Python raises
\* ValueError.  A token has no sign and no white space (it is matched by \w+
\* or \d+), so only the base prefix, the digits, the underscore placement
\* and the leading-zero rule of base 0 decide.
PyInt(s) ==
    LET n        == Len(s)
        prefixed == n >= 2 /\ s[1] = "0"
                    /\ s[2] \in {"x", "X", "o", "O", "b", "B"}
        base     == IF ~prefixed THEN 10
                    ELSE IF s[2] \in {"x", "X"} THEN 16
                    ELSE IF s[2] \in {"o", "O"} THEN 8
                    ELSE 2
        body     == IF prefixed THEN SubSeq(s, 3, n) ELSE s
        m        == Len(body)
        digs     == DropUnderscores(body)
        us_ok    == /\ m > 0
                    /\ body[m] # "_"
                    /\ (prefixed \/ body[1] # "_")
                    /\ \A k \in 1..(m - 1) : ~(body[k] = "_" /\ body[k + 1] = "_")
        digs_ok  == /\ Len(digs) > 0
                    /\ \A k \in 1..Len(digs) : DigitVal(digs[k]) < base
        val      == DigitsValue(digs, base, 0)
        zero_ok  == (~prefixed /\ s[1] = "0") => val = 0
    IN  IF n > 0 /\ us_ok /\ digs_ok /\ zero_ok
        THEN [ok |-> TRUE, val |-> val]
        ELSE [ok |-> FALSE, val |-> 0]

\* text matched in full by \d+
IsDigitsToken(s) == Len(s) > 0 /\ \A k \in 1..Len(s) : s[k] \in Digits

\* text matched in full by (0|0b|0x)?\w+
IsWordToken(s) == Len(s) > 0 /\ \A k \in 1..Len(s) : s[k] \in WordChars

\* text matched in full by [a-zA-Z_$][a-zA-Z_$0-9]*
IsIdentToken(s) ==
    Len(s) > 0 /\ s[1] \in IdentStart /\ \A k \in 1..Len(s) : s[k] \in IdentChars

(***************************************************************************)
(* Source lines.  A line is the record of its parts:                       *)
(*   form "blank"    the empty line                                        *)
(*   form "comment"  // ...                                                *)
(*   form "depth"    DEPTH <opnd>                                          *)
(*   form "define"   .define <name> <opnd>                                 *)
(*   form "label"    <name>:                                               *)
(*   form "instr"    [<name>: ]<op> <ra>, <pre><opnd><post>                *)
(*   form "branch"   [<name>: ]<op> <pre><opnd>                            *)
(*   form "word"     [<name>: ].word <opnd>                                *)
(*   form "other"    a statement of another shape, such as  nop            *)
(* name, ra and opnd are tokens (<<>> for an absent name), op is the       *)
(* mnemonic, pre is a run of "[" or of "#", post a run of "]".             *)
(***************************************************************************)
NoToken == <<>>

MkLine(form, name, op, ra, pre, opnd, post) ==
    [form |-> form, name |-> name, op |-> op, ra |-> ra,
     pre |-> pre, opnd |-> opnd, post |-> post]

\* the name DEPTH, as compared in lines 202, 216 and 241
DEPTH_NAME == <<"D", "E", "P", "T", "H">>

(***************************************************************************)
(* Lookup tables of the class.                                             *)
(***************************************************************************)
MAX_INT_16U == 65535

MAX_INT_IMM == 511

INSTR_STR_TO_VAL ==
    ("mv" :> 0) @@ ("mvt" :> 1) @@ ("add" :> 2) @@ ("sub" :> 3) @@ ("ld" :> 4)
    @@ ("st" :> 5) @@ ("and" :> 6) @@ ("b" :> 7) @@ ("beq" :> 7)
    @@ ("bne" :> 7) @@ ("bcc" :> 7) @@ ("bcs" :> 7)

REG_STR_TO_VAL ==
    (<<"r", "0">> :> 0) @@ (<<"r", "1">> :> 1) @@ (<<"r", "2">> :> 2)
    @@ (<<"r", "3">> :> 3) @@ (<<"r", "4">> :> 4) @@ (<<"r", "5">> :> 5)
    @@ (<<"r", "6">> :> 6) @@ (<<"r", "7">> :> 7) @@ (<<"p", "c">> :> 7)

COND_STR_TO_VAL ==
    ("" :> 0) @@ ("eq" :> 1) @@ ("ne" :> 2) @@ ("cc" :> 3) @@ ("cs" :> 4)

\* Python lists are 0-based: element k of the list is [k + 1] here
INSTR_VAL_TO_STR ==
    <<"mv  ", "mvt ", "add ", "sub ", "ld  ", "st  ", "and", "b",
      "beq", "bne", "bcc", "bcs">>

REG_VAL_TO_STR == <<"r0", "r1", "r2", "r3", "r4", "r5", "r6", "r7">>

COND_VAL_TO_STR == <<"  ", "eq", "ne", "cc", "cs", "", "", "">>

(***************************************************************************)
(* The regular expressions, as predicates on the parts of a line, and the  *)
(* groups they capture.                                                    *)
(***************************************************************************)
\* r[0-7]|pc
IsRegToken(t) ==
    \/ Len(t) = 2 /\ t[1] = "r" /\ t[2] \in {"0", "1", "2", "3", "4", "5", "6", "7"}
    \/ t = <<"p", "c">>

\* (LABEL_REGEX_STR)? at the start of a line
OptLabelOk(l) == l.name = NoToken \/ IsIdentToken(l.name)

\* (((0|0b|0x)?\w+)|[a-zA-Z_$][a-zA-Z_$0-9]*)+ matches the token in full
IsOperandToken(t) ==
    Len(t) > 0 /\ \A k \in 1..Len(t) : t[k] \in WordChars \cup {"$"}

\* What the repeated group keeps: its last repetition.  \w+ takes the
\* longest run of word characters, so a later repetition starts at the
\* first "$" and takes the rest of the token.
RECURSIVE Group5(_)
Group5(t) ==
    IF t = <<>> THEN <<>>
    ELSE IF \A k \in 1..Len(t) : t[k] # "$" THEN t
    ELSE IF Head(t) = "$" THEN t
    ELSE Group5(Tail(t))

IsComment(l) == l.form = "comment"

IsBlank(l) == l.form = "blank"

MatchDepthDef(l) == l.form = "depth" /\ IsDigitsToken(l.opnd)

MatchDefine(l) == l.form = "define" /\ IsIdentToken(l.name) /\ IsWordToken(l.opnd)

MatchLabel(l) == l.form = "label" /\ IsIdentToken(l.name)

\* the string of n copies of the character c
RECURSIVE Run(_, _)
Run(c, n) == IF n = 0 THEN "" ELSE c \o Run(c, n - 1)

\* \[* , \]* and #* of the patterns: s is a run of any length of c
IsRunOf(s, c) == s = Run(c, Len(s))

MatchType1(l) ==
    /\ l.form = "instr"
    /\ OptLabelOk(l)
    /\ l.op \in {"mv", "add", "sub", "ld", "st", "and"}
    /\ IsRegToken(l.ra)
    /\ IsRunOf(l.pre, "[")
    /\ IsRegToken(l.opnd)
    /\ IsRunOf(l.post, "]")

MatchType2(l) ==
    /\ l.form = "instr"
    /\ OptLabelOk(l)
    /\ l.op \in {"mv", "mvt", "add", "sub", "and"}
    /\ IsRegToken(l.ra)
    /\ IsRunOf(l.pre, "#")
    /\ IsOperandToken(l.opnd)
    /\ l.post = ""

MatchType3(l) ==
    /\ l.form = "branch"
    /\ OptLabelOk(l)
    /\ l.op \in {"b", "beq", "bne", "bcc", "bcs"}
    /\ IsRunOf(l.pre, "#")
    /\ IsOperandToken(l.opnd)

MatchType1Chk(l) ==
    /\ l.form = "instr"
    /\ OptLabelOk(l)
    /\ l.op \in {"mv", "add", "sub", "and"}
    /\ IsRegToken(l.ra)
    /\ l.pre = "["
    /\ IsRegToken(l.opnd)
    /\ l.post = "]"

\* form "word" is the directive written  .word ; the unescaped dot of the
\* pattern lets any other first character through as well
MatchWordDir(l) == l.form = "word" /\ OptLabelOk(l) /\ IsWordToken(l.opnd)

\* group(4) of INSTR_TYPE3_REGEX: the condition after the "b", None -> ''
BranchCond(op) ==
    CASE op = "beq" -> "eq" [] op = "bne" -> "ne" [] op = "bcc" -> "cc"
      [] op = "bcs" -> "cs" [] OTHER -> ""

(***************************************************************************)
(* ErrorCodes.py                                                           *)
(***************************************************************************)
NO_ERROR == 0

BAD_INSTR == 1

BAD_REG == 2

BAD_IMMED == 3

BIG_IMMED == 4

BIG_DEFINE == 5

DEFINE_REDEF == 6

IMMED_LABEL_NF == 7

DEPTH_ERROR == 8

BAD_DATA == 9

DEPTH_DEFINE == 10

BIG_BRANCH == 11

UNKNOWN == 12

\* str(n) of a non-negative int
RECURSIVE DecStr(_)
DecStr(n) ==
    LET d == <<"0", "1", "2", "3", "4", "5", "6", "7", "8", "9">>
    IN  IF n < 10 THEN d[n + 1] ELSE DecStr(n \div 10) \o d[(n % 10) + 1]

\* '%x' % n of a non-negative int
RECURSIVE HexStr(_)
HexStr(n) ==
    LET d == <<"0", "1", "2", "3", "4", "5", "6", "7", "8", "9",
               "a", "b", "c", "d", "e", "f">>
    IN  IF n < 16 THEN d[n + 1] ELSE HexStr(n \div 16) \o d[(n % 16) + 1]

\* '%04x' % n: at least four digits, padded with zeros
Hex04(n) ==
    IF n < 16 THEN "000" \o HexStr(n)
    ELSE IF n < 256 THEN "00" \o HexStr(n)
    ELSE IF n < 4096 THEN "0" \o HexStr(n)
    ELSE HexStr(n)

\* get_error_message: [raised |-> FALSE, text |-> message], or raised = TRUE
\* where the dictionary lookup raises KeyError
get_error_message(error_code, line, depth, instruction_count) ==
    LET code     == IF error_code < UNKNOWN THEN error_code ELSE UNKNOWN
        line_str == DecStr(line)
        at       == "ERROR: line " \o line_str
    IN  IF code < NO_ERROR THEN [raised |-> TRUE, text |-> ""]
        ELSE [raised |-> FALSE, text |->
            CASE code = NO_ERROR -> ""
              [] code = BAD_INSTR -> at \o ": unknown instruction"
              [] code = BAD_REG -> at \o ": unknown register"
              [] code = BAD_IMMED -> at \o
                   ": the immediate value for mvt should be 0 in the eight least-significant bits"
              [] code = BIG_IMMED -> at \o ": the immediate value is too large"
              [] code = BIG_DEFINE -> at \o ": define value too large"
              [] code = DEFINE_REDEF -> at \o ": define is being redefined"
              [] code = IMMED_LABEL_NF -> at \o
                   ": undeclared identifier (label or define), or value error"
              [] code = DEPTH_ERROR -> "ERROR: Memory depth must be an integer multiple of 2"
              [] code = BAD_DATA -> at \o ": missing or bad data"
              [] code = DEPTH_DEFINE -> at \o
                   ": symbol DEPTH is reserved, it cannot be redefined"
              [] code = BIG_BRANCH -> at \o ": the branch target is too large"
              [] OTHER -> "ERROR: UNKNOWN"]

(***************************************************************************)
(* Range checks and encoders (Assembler.py, lines 509-598).                *)
(***************************************************************************)
is_number_too_large(num) == num > MAX_INT_16U

\* the largest immediate refused
is_number_too_large_imm_mut(num) == num >= MAX_INT_IMM

is_number_too_large_imm(num) == num > MAX_INT_IMM

is_number_bad_imm(num) == BitAnd(num, 255) # 0

\* a branch to the address  depth  let through
is_branch_too_large_mut(imm, depth) == imm > depth

\* line 499: the test of a branch target against the memory depth
is_branch_too_large(imm, depth) == imm >= depth

make_type1_instruction(instr, ra, rb) ==
    BitOr(BitOr(rb, Shl(ra, 9)), Shl(instr, 13))

make_type2_instruction(instr, ra, imm) ==
    IF INSTR_VAL_TO_STR[instr + 1] # "mvt "
    THEN BitOr(BitOr(BitOr(BitAnd(imm, 511), Shl(ra, 9)), Shl(1, 12)), Shl(instr, 13))
    ELSE BitOr(BitOr(BitOr(Shr(imm, 8), Shl(ra, 9)), Shl(1, 12)), Shl(instr, 13))

make_type3_instruction(instr, cond, imm) ==
    BitOr(BitOr(BitOr(BitAnd(imm, 511), Shl(cond, 9)), Shl(1, 12)), Shl(instr, 13))

(***************************************************************************)
(* The parsers of pass 2 (lines 400-506 and 548-566).  Each returns the    *)
(* pair (error, sub_mif) as a record.                                      *)
(***************************************************************************)
Ret(error, sub_mif) == [error |-> error, sub_mif |-> sub_mif]

\* int(text, 0), and on ValueError symbol_def_to_num.get(text): found = FALSE
\* where the lookup yields None (lines 446-452 and 490-496)
resolve_operand(text, symtab) ==
    LET p == PyInt(text)
    IN  IF p.ok THEN [found |-> TRUE, imm |-> p.val]
        ELSE IF text \in DOMAIN symtab THEN [found |-> TRUE, imm |-> symtab[text]]
        ELSE [found |-> FALSE, imm |-> 0]

parse_type1_instruction(l) ==
    IF MatchType1Chk(l) THEN Ret(BAD_INSTR, <<>>)
    ELSE IF l.op \notin DOMAIN INSTR_STR_TO_VAL THEN Ret(BAD_INSTR, <<>>)
    ELSE IF l.ra \notin DOMAIN REG_STR_TO_VAL THEN Ret(BAD_REG, <<>>)
    ELSE IF l.opnd \notin DOMAIN REG_STR_TO_VAL THEN Ret(BAD_REG, <<>>)
    ELSE Ret(NO_ERROR, <<make_type1_instruction(INSTR_STR_TO_VAL[l.op],
                                                REG_STR_TO_VAL[l.ra],
                                                REG_STR_TO_VAL[l.opnd])>>)

\* The tests  instr is None  of lines 462 and 502 cannot succeed on a line
\* the pattern has matched (the mnemonic is a key of INSTR_STR_TO_VAL), and
\* line 455 indexes INSTR_VAL_TO_STR with instr before line 462 tests it.
parse_type2_instruction(l, symtab) ==
    LET instr == INSTR_STR_TO_VAL[l.op]
        r     == resolve_operand(Group5(l.opnd), symtab)
        imm   == r.imm
    IN  IF ~r.found THEN Ret(IMMED_LABEL_NF, <<>>)
        ELSE IF INSTR_VAL_TO_STR[instr + 1] # "mvt " /\ is_number_too_large_imm(imm)
        THEN Ret(BIG_IMMED, <<>>)
        ELSE IF INSTR_VAL_TO_STR[instr + 1] = "mvt " /\ is_number_bad_imm(imm)
        THEN Ret(BAD_IMMED, <<>>)
        ELSE IF l.ra \notin DOMAIN REG_STR_TO_VAL THEN Ret(BAD_REG, <<>>)
        ELSE Ret(NO_ERROR, <<make_type2_instruction(instr, REG_STR_TO_VAL[l.ra], imm)>>)

parse_type3_instruction(l, symtab, depth) ==
    LET instr == INSTR_STR_TO_VAL[l.op]
        cond  == COND_STR_TO_VAL[BranchCond(l.op)]
        r     == resolve_operand(Group5(l.opnd), symtab)
        imm   == r.imm
    IN  IF ~r.found THEN Ret(IMMED_LABEL_NF, <<>>)
        ELSE IF is_branch_too_large(imm, depth) THEN Ret(BIG_BRANCH, <<>>)
        ELSE Ret(NO_ERROR, <<make_type3_instruction(instr, cond, imm)>>)

parse_word_dir(l) ==
    LET p == PyInt(l.opnd)
    IN  IF ~p.ok THEN Ret(BAD_DATA, <<>>) ELSE Ret(NO_ERROR, <<p.val>>)

(***************************************************************************)
(* The disassembly written next to an instruction word (lines 601-636).    *)
(***************************************************************************)
instruction_to_comment(instr) ==
    LET rb   == BitAnd(instr, 7)
        ra   == BitAnd(Shr(instr, 9), 7)
        imm  == BitAnd(Shr(instr, 12), 1)
        i    == BitAnd(Shr(instr, 13), 7)
        cond == BitAnd(Shr(instr, 9), 7)
        head == IF i = INSTR_STR_TO_VAL["b"]
                THEN INSTR_VAL_TO_STR[i + 1] \o COND_VAL_TO_STR[cond + 1] \o "  "
                ELSE INSTR_VAL_TO_STR[i + 1] \o " " \o REG_VAL_TO_STR[ra + 1] \o ", "
        opnd == IF imm = 1
                THEN IF INSTR_VAL_TO_STR[i + 1] # "mvt "
                     THEN "#0x" \o Hex04(BitAnd(instr, 511))
                     ELSE "#0x" \o Hex04(Shl(BitAnd(instr, 511), 8))
                ELSE IF INSTR_VAL_TO_STR[i + 1] = "ld  " \/ INSTR_VAL_TO_STR[i + 1] = "st  "
                     THEN "[" \o REG_VAL_TO_STR[rb + 1] \o "]"
                     ELSE REG_VAL_TO_STR[rb + 1]
    IN  head \o opnd \o " %"

(***************************************************************************)
(* State of one run of  Assembler(in_filename, out_filename).assemble().   *)
(***************************************************************************)
VARIABLES
    lines,                 \* self.lines, the input file
    pc,                    \* position in assemble()
    idx,                   \* position of the running for loop in self.lines
    line,                  \* self.line
    curr_instr_num,        \* self.curr_instr_num
    depth_words,           \* self.depth_words
    symbol_def_to_num,     \* self.symbol_def_to_num
    machine_instructions,  \* self.machine_instructions
    is_inst,               \* self.is_inst
    error,                 \* the local  error  of assemble()
    stdout,                \* the lines printed so far
    out_file,              \* the lines written to the output file
    exc,                   \* the exception that ended the run, "" if none
    emit_line              \* history: self.line when each word was appended

vars == <<lines, pc, idx, line, curr_instr_num, depth_words, symbol_def_to_num,
          machine_instructions, is_inst, error, stdout, out_file, exc, emit_line>>

EmptyDict == [k \in {} |-> 0]

\* only the first depth directive of a file obeyed
depth_after_directive_mut(depth, val) == IF depth = 256 THEN val ELSE depth

\* line 193: the depth that an accepted depth directive leaves
depth_after_directive(depth, val) == val

\* pass 1 counting an instruction or data line twice
next_instr_num_mut(cin) == cin + 2

\* line 250: the counter of pass 1 after an instruction or data line
next_instr_num(cin) == cin + 1

\* a label bound one word too far
label_address_mut(cin) == cin + 2

\* lines 222 and 247: the value bound to a label
label_address(cin) == cin + 1

\* pass 2 started whatever pass 1 returned
pass1_ok_mut(err) == TRUE

\* line 150: the test that lets pass 2 start
pass1_ok(err) == err = NO_ERROR

\* line 158: the test that lets the output be written
pass2_ok(err) == err = NO_ERROR

(***************************************************************************)
(* One iteration of the loop of __find_labels (lines 177-256) on line l.   *)
(* out = "next": the loop goes on; "return": the pass returns error;       *)
(* "raise": the exception exc leaves the pass.                             *)
(***************************************************************************)
P1Next(symtab, depth, cin) ==
    [out |-> "next", error |-> NO_ERROR, exc |-> "",
     symtab |-> symtab, depth |-> depth, cin |-> cin]

P1Return(err, symtab, depth, cin) ==
    [out |-> "return", error |-> err, exc |-> "",
     symtab |-> symtab, depth |-> depth, cin |-> cin]

P1Raise(e, symtab, depth, cin) ==
    [out |-> "raise", error |-> NO_ERROR, exc |-> e,
     symtab |-> symtab, depth |-> depth, cin |-> cin]

find_labels_line(l, symtab, depth, cin) ==
    IF IsBlank(l) \/ IsComment(l) THEN P1Next(symtab, depth, cin)
    ELSE IF MatchDepthDef(l) THEN
        LET p == PyInt(l.opnd)
        IN  IF ~p.ok THEN P1Raise("ValueError", symtab, depth, cin)
            ELSE IF p.val % 2 # 0 THEN P1Return(DEPTH_ERROR, symtab, depth, cin)
            ELSE P1Next(symtab, depth_after_directive(depth, p.val), cin)
    ELSE IF MatchDefine(l) THEN
        LET p == PyInt(l.opnd)
        IN  IF ~p.ok THEN P1Raise("ValueError", symtab, depth, cin)
            ELSE IF l.name = DEPTH_NAME THEN P1Return(DEPTH_DEFINE, symtab, depth, cin)
            ELSE IF l.name \in DOMAIN symtab THEN P1Return(DEFINE_REDEF, symtab, depth, cin)
            ELSE IF is_number_too_large(p.val) THEN P1Return(BIG_DEFINE, symtab, depth, cin)
            ELSE P1Next((l.name :> p.val) @@ symtab, depth, cin)
    ELSE IF MatchLabel(l) THEN
        IF l.name = DEPTH_NAME THEN P1Return(DEPTH_DEFINE, symtab, depth, cin)
        ELSE IF l.name \in DOMAIN symtab THEN P1Return(DEFINE_REDEF, symtab, depth, cin)
        ELSE P1Next((l.name :> label_address(cin)) @@ symtab, depth, cin)
    ELSE IF ~(MatchType1(l) \/ MatchType2(l) \/ MatchType3(l) \/ MatchWordDir(l))
    THEN \* match is None at line 239: match.group(2) raises
        P1Raise("AttributeError", symtab, depth, cin)
    ELSE IF l.name = DEPTH_NAME THEN P1Return(DEPTH_DEFINE, symtab, depth, cin)
    ELSE IF l.name \in DOMAIN symtab THEN P1Return(DEFINE_REDEF, symtab, depth, cin)
    ELSE IF l.name # NoToken
    THEN P1Next((l.name :> label_address(cin)) @@ symtab, depth, next_instr_num(cin))
    ELSE P1Next(symtab, depth, next_instr_num(cin))

(***************************************************************************)
(* One iteration of the loop of __parse_lines (lines 271-327) on line l:   *)
(* the (error, sub_mif) of the parser the line is dispatched to and the    *)
(* tag of its word; parsed = FALSE for a line the pass skips.              *)
(***************************************************************************)
parse_lines_line(l, symtab, depth) ==
    IF IsBlank(l) \/ IsComment(l) THEN [parsed |-> FALSE, r |-> Ret(NO_ERROR, <<>>), tag |-> FALSE]
    ELSE IF MatchType1(l) THEN [parsed |-> TRUE, r |-> parse_type1_instruction(l), tag |-> TRUE]
    ELSE IF MatchType2(l)
    THEN [parsed |-> TRUE, r |-> parse_type2_instruction(l, symtab), tag |-> TRUE]
    ELSE IF MatchType3(l)
    THEN [parsed |-> TRUE, r |-> parse_type3_instruction(l, symtab, depth), tag |-> TRUE]
    ELSE IF MatchWordDir(l) THEN [parsed |-> TRUE, r |-> parse_word_dir(l), tag |-> FALSE]
    ELSE [parsed |-> FALSE, r |-> Ret(NO_ERROR, <<>>), tag |-> FALSE]

(***************************************************************************)
(* The text of the output file (lines 342-379).                            *)
(***************************************************************************)
output_content_line(i, instruction, write_comment) ==
    HexStr(i) \o "\t\t: " \o Hex04(instruction) \o ";\t\t% "
    \o (IF write_comment THEN instruction_to_comment(instruction) ELSE "data %")

output_text(width, depth, words, tags) ==
    << "WIDTH = " \o DecStr(width) \o ";",
       "DEPTH = " \o DecStr(depth) \o ";",
       "ADDRESS_RADIX = HEX;",
       "DATA_RADIX = HEX;",
       "",
       "CONTENT",
       "BEGIN" >>
    \o [k \in 1..Len(words) |-> output_content_line(k - 1, words[k], tags[k])]
    \o << "END;" >>

(***************************************************************************)
(* Input files.  Programs(S, max): every file of at most max lines drawn   *)
(* from the set S of lines.                                                *)
(***************************************************************************)
Programs(S, max) == UNION {[1..n -> S] : n \in 0..max}

T_A == <<"A">>

T_B == <<"B">>

T_r0 == <<"r", "0">>

T_r1 == <<"r", "1">>

\* //                  a comment
L_comment == MkLine("comment", NoToken, "", NoToken, "", NoToken, "")

\* (the empty line)
L_blank == MkLine("blank", NoToken, "", NoToken, "", NoToken, "")

\* nop                 matched by no pattern
L_nop == MkLine("other", NoToken, "nop", NoToken, "", NoToken, "")

Depth(num) == MkLine("depth", NoToken, "", NoToken, "", num, "")

Define(name, val) == MkLine("define", name, "", NoToken, "", val, "")

Label(name) == MkLine("label", name, "", NoToken, "", NoToken, "")

\* [name: ]op ra, rb
RegReg(name, op, ra, rb) == MkLine("instr", name, op, ra, "", rb, "")

\* [name: ]op ra, [rb]
RegInd(name, op, ra, rb) == MkLine("instr", name, op, ra, "[", rb, "]")

\* [name: ]op ra, #opnd
RegImm(name, op, ra, opnd) == MkLine("instr", name, op, ra, "#", opnd, "")

\* [name: ]op opnd
Branch(name, op, opnd) == MkLine("branch", name, op, NoToken, "", opnd, "")

\* [name: ].word opnd
Word(name, opnd) == MkLine("word", name, "", NoToken, "", opnd, "")

\* The lines of the general specification: every kind of line of pass 1
\* and pass 2, names bound by each of the three binding forms, the name
\* DEPTH, a small memory depth, a data word of 17 bits, a define whose value
\* is no number and a statement no pattern matches.
LineSet ==
    { L_comment,
      L_nop,
      Depth(<<"2">>),
      Define(T_A, <<"1">>),
      Define(T_A, <<"z", "z">>),
      Define(DEPTH_NAME, <<"1", "0">>),
      Label(T_A),
      Label(T_B),
      RegReg(T_A, "mv", T_r0, T_r1),
      RegReg(DEPTH_NAME, "ld", T_r0, T_r1),
      RegImm(NoToken, "add", T_r1, T_A),
      Branch(NoToken, "beq", T_B),
      Word(T_B, <<"0", "x", "1", "0", "0", "0", "0">>) }

WIDTH_BITS == 16

DEFAULT_DEPTH == 256

\* the state after __init__ (lines 85-134) on the file  input
InitOn(input) ==
    /\ lines = input
    /\ pc = "start"
    /\ idx = 0
    /\ line = 0
    /\ curr_instr_num = -1
    /\ depth_words = DEFAULT_DEPTH
    /\ symbol_def_to_num = EmptyDict
    /\ machine_instructions = <<>>
    /\ is_inst = <<>>
    /\ error = NO_ERROR
    /\ stdout = <<>>
    /\ out_file = <<>>
    /\ exc = ""
    /\ emit_line = <<>>

Init == \E input \in Programs(LineSet, MaxLines) : InitOn(input)

(***************************************************************************)
(* assemble()                                                              *)
(***************************************************************************)
\* lines 142-148 and 174-175: pass 1 is entered
FindLabelsBegin ==
    /\ pc = "start"
    /\ pc' = "pass1"
    /\ line' = 1
    /\ curr_instr_num' = -1
    /\ idx' = 1
    /\ UNCHANGED <<lines, depth_words, symbol_def_to_num, machine_instructions,
                   is_inst, error, stdout, out_file, exc, emit_line>>

\* lines 177-256: one iteration of the loop of pass 1
FindLabelsStep ==
    /\ pc = "pass1"
    /\ idx <= Len(lines)
    /\ LET o == find_labels_line(lines[idx], symbol_def_to_num, depth_words,
                                 curr_instr_num)
       IN  /\ symbol_def_to_num' = o.symtab
           /\ depth_words' = o.depth
           /\ curr_instr_num' = o.cin
           /\ IF o.out = "next"
              THEN /\ line' = line + 1
                   /\ idx' = idx + 1
                   /\ UNCHANGED <<pc, error, exc>>
              ELSE IF o.out = "return"
              THEN /\ pc' = "ret1"
                   /\ error' = o.error
                   /\ UNCHANGED <<line, idx, exc>>
              ELSE /\ pc' = "raised"
                   /\ exc' = o.exc
                   /\ UNCHANGED <<line, idx, error>>
    /\ UNCHANGED <<lines, machine_instructions, is_inst, stdout, out_file, emit_line>>

\* line 259: the loop of pass 1 is over
FindLabelsReturn ==
    /\ pc = "pass1"
    /\ idx > Len(lines)
    /\ pc' = "ret1"
    /\ error' = NO_ERROR
    /\ UNCHANGED <<lines, idx, line, curr_instr_num, depth_words, symbol_def_to_num,
                   machine_instructions, is_inst, stdout, out_file, exc, emit_line>>

\* lines 150-153: the error of pass 1 is printed
ReportPass1Error ==
    /\ pc = "ret1"
    /\ ~pass1_ok(error)
    /\ stdout' = Append(stdout,
                        get_error_message(error, line, depth_words, curr_instr_num).text)
    /\ pc' = "done"
    /\ UNCHANGED <<lines, idx, line, curr_instr_num, depth_words, symbol_def_to_num,
                   machine_instructions, is_inst, error, out_file, exc, emit_line>>

\* lines 154-156 and 268-269: pass 2 is entered
ParseLinesBegin ==
    /\ pc = "ret1"
    /\ pass1_ok(error)
    /\ pc' = "pass2"
    /\ line' = 1
    /\ curr_instr_num' = -1
    /\ idx' = 1
    /\ UNCHANGED <<lines, depth_words, symbol_def_to_num, machine_instructions,
                   is_inst, error, stdout, out_file, exc, emit_line>>

\* lines 271-327: one iteration of the loop of pass 2
ParseLinesStep ==
    /\ pc = "pass2"
    /\ idx <= Len(lines)
    /\ LET o == parse_lines_line(lines[idx], symbol_def_to_num, depth_words)
       IN  IF ~o.parsed
           THEN /\ line' = line + 1
                /\ idx' = idx + 1
                /\ UNCHANGED <<pc, error, curr_instr_num, machine_instructions,
                               is_inst, emit_line>>
           ELSE IF o.r.error = NO_ERROR
           THEN /\ curr_instr_num' = curr_instr_num + 1
                /\ machine_instructions' = machine_instructions \o o.r.sub_mif
                /\ is_inst' = is_inst \o <<o.tag>>
                /\ emit_line' = Append(emit_line, line)
                /\ line' = line + 1
                /\ idx' = idx + 1
                /\ UNCHANGED <<pc, error>>
           ELSE /\ pc' = "ret2"
                /\ error' = o.r.error
                /\ UNCHANGED <<line, idx, curr_instr_num, machine_instructions,
                               is_inst, emit_line>>
    /\ UNCHANGED <<lines, depth_words, symbol_def_to_num, stdout, out_file, exc>>

\* line 330: the loop of pass 2 is over
ParseLinesReturn ==
    /\ pc = "pass2"
    /\ idx > Len(lines)
    /\ pc' = "ret2"
    /\ error' = NO_ERROR
    /\ UNCHANGED <<lines, idx, line, curr_instr_num, depth_words, symbol_def_to_num,
                   machine_instructions, is_inst, stdout, out_file, exc, emit_line>>

\* lines 158-161: the error of pass 2 is printed
ReportPass2Error ==
    /\ pc = "ret2"
    /\ ~pass2_ok(error)
    /\ stdout' = Append(stdout,
                        get_error_message(error, line, depth_words, curr_instr_num).text)
    /\ pc' = "done"
    /\ UNCHANGED <<lines, idx, line, curr_instr_num, depth_words, symbol_def_to_num,
                   machine_instructions, is_inst, error, out_file, exc, emit_line>>

\* lines 162-164 and 333-379: the output file is written
OutputFile ==
    /\ pc = "ret2"
    /\ pass2_ok(error)
    /\ out_file' = output_text(WIDTH_BITS, depth_words, machine_instructions, is_inst)
    /\ pc' = "done"
    /\ UNCHANGED <<lines, idx, line, curr_instr_num, depth_words, symbol_def_to_num,
                   machine_instructions, is_inst, error, stdout, exc, emit_line>>

Next ==
    \/ FindLabelsBegin
    \/ FindLabelsStep
    \/ FindLabelsReturn
    \/ ReportPass1Error
    \/ ParseLinesBegin
    \/ ParseLinesStep
    \/ ParseLinesReturn
    \/ ReportPass2Error
    \/ OutputFile

Spec == Init /\ [][Next]_vars

(***************************************************************************)
(* Specification of the labels: files of label-only lines, defines, depth  *)
(* directives, blank and comment lines, and instruction and data lines     *)
(* that define and use labels.                                             *)
(***************************************************************************)
T_C == <<"C">>

LabelLineSet ==
    { L_blank,
      L_comment,
      Depth(<<"2">>),
      Define(T_C, <<"7">>),
      Label(T_A),
      Label(T_B),
      RegReg(T_A, "mv", T_r0, T_r1),
      Word(T_B, <<"5">>),
      Branch(NoToken, "b", T_A),
      RegImm(NoToken, "add", T_r1, T_B) }

InitLabels == \E input \in Programs(LabelLineSet, MaxLabelLines) : InitOn(input)

SpecLabels == InitLabels /\ [][Next]_vars

\* pass 1 and pass 2 have both returned NO_ERROR
BothPassesSucceeded == pc \in {"ret2", "done"} /\ error = NO_ERROR

\* the line is classified as an instruction or a data directive
IsInstrOrData(l) == MatchType1(l) \/ MatchType2(l) \/ MatchType3(l) \/ MatchWordDir(l)

\* line j defines a label: it is a label-only line, or an instruction or
\* data line with a leading label
DefinesLabel(j) ==
    \/ MatchLabel(lines[j])
    \/ IsInstrOrData(lines[j]) /\ lines[j].name # NoToken

\* line k is the first instruction or data line at or after line j
FirstInstrAtOrAfter(j, k) ==
    /\ k \in j..Len(lines)
    /\ IsInstrOrData(lines[k])
    /\ \A m \in j..(k - 1) : ~IsInstrOrData(lines[m])

\* C1: when both passes have succeeded, the value bound to a label defined
\* on line j is the address of the word that pass 2 appended for the first
\* instruction or data line at or after line j, whatever lies in between.
C1_LabelIsAddressOfNextWord ==
    BothPassesSucceeded =>
        \A j \in 1..Len(lines) : \A k \in 1..Len(lines) :
            (DefinesLabel(j) /\ FirstInstrAtOrAfter(j, k)) =>
                /\ lines[j].name \in DOMAIN symbol_def_to_num
                /\ \E a \in 1..Len(emit_line) :
                      /\ emit_line[a] = k
                      /\ symbol_def_to_num[lines[j].name] = a - 1

\* a finished run with a label-only line, two lines that emit nothing after
\* it, and then the word at address 1 that the label is bound to
C1_Witness ==
    /\ pc = "done"
    /\ out_file # <<>>
    /\ \E j \in 1..Len(lines) :
          /\ MatchLabel(lines[j])
          /\ FirstInstrAtOrAfter(j, j + 2)
          /\ symbol_def_to_num[lines[j].name] = 1
          /\ emit_line[2] = j + 2

(***************************************************************************)
(* Specification of the immediates: shape-2 instructions and data words    *)
(* whose operand is a literal, a define or a label, around the limits of   *)
(* the 9-bit field, the low byte of mvt and the 16-bit word.               *)
(***************************************************************************)
T_L == <<"L">>

T_r2 == <<"r", "2">>

T_pc == <<"p", "c">>

ImmLineSet ==
    { Define(T_A, <<"0", "x", "1", "F", "F">>),
      Define(T_B, <<"5", "1", "2">>),
      Define(T_A, <<"0", "x", "F", "F", "0", "0">>),
      RegImm(NoToken, "mv", T_r0, <<"0">>),
      MkLine("instr", NoToken, "add", T_r1, "###", <<"0", "x", "1", "f", "f">>, ""),
      MkLine("instr", NoToken, "sub", T_r2, "", <<"0", "x", "2", "0", "0">>, ""),
      RegImm(NoToken, "and", T_pc, T_A),
      RegImm(NoToken, "add", T_r1, T_B),
      RegImm(T_L, "sub", T_r0, T_L),
      RegImm(NoToken, "mvt", T_r0, T_A),
      RegImm(NoToken, "mvt", T_r1, <<"2", "5", "6">>),
      RegImm(NoToken, "mvt", T_r2, <<"0", "x", "2", "0", "0", "0", "0">>),
      RegImm(NoToken, "mvt", T_pc, <<"0", "x", "1", "0", "0", "0", "0", "0", "0">>),
      Word(NoToken, <<"0", "x", "F", "F", "F", "F">>),
      Word(NoToken, <<"6", "5", "5", "3", "6">>) }

InitImm == \E input \in Programs(ImmLineSet, MaxLines) : InitOn(input)

SpecImm == InitImm /\ [][Next]_vars

(***************************************************************************)
(* Specification of the branches: branches to literals, defines and labels *)
(* around the memory depth, under the default depth and under depth        *)
(* directives, with shape-1 instructions in between.                       *)
(***************************************************************************)
T_T == <<"T">>

BranchLineSet ==
    { Depth(<<"4">>),
      Depth(<<"1", "0", "2", "4">>),
      Depth(<<"3">>),
      Define(T_T, <<"4">>),
      Define(T_T, <<"3">>),
      Label(T_T),
      Branch(NoToken, "b", T_T),
      MkLine("branch", NoToken, "beq", NoToken, "#", <<"3">>, ""),
      MkLine("branch", NoToken, "bne", NoToken, "#", <<"6", "0", "0">>, ""),
      MkLine("branch", NoToken, "bcc", NoToken, "###", <<"2", "5", "5">>, ""),
      MkLine("branch", NoToken, "bcs", NoToken, "#", <<"2", "5", "6">>, ""),
      RegReg(NoToken, "mv", T_r0, T_pc),
      RegInd(NoToken, "ld", T_r1, T_r2) }

InitBranch == \E input \in Programs(BranchLineSet, MaxLines) : InitOn(input)

SpecBranch == InitBranch /\ [][Next]_vars

(***************************************************************************)
(* Properties.                                                             *)
(***************************************************************************)
\* the line the running loop is about to process
AtLine(pass) == pc = pass /\ idx \in 1..Len(lines)

\* C2: after an error of pass 1, pass 2 is never entered and nothing is
\* written; after an error of pass 2 nothing is written; the output file is
\* written only once both passes have returned NO_ERROR, and then in full.
C2_NoOutputOnFailure ==
    /\ [](out_file # <<>> =>
            /\ pc = "done"
            /\ error = NO_ERROR
            /\ Len(out_file) = 8 + Len(machine_instructions)
            /\ out_file[Len(out_file)] = "END;")
    /\ [][ /\ (pc = "ret1" /\ error # NO_ERROR) =>
                (pc' = "done" /\ machine_instructions' = <<>> /\ out_file' = <<>>)
           /\ (pc = "ret2" /\ error # NO_ERROR) => (pc' = "done" /\ out_file' = <<>>)
           /\ (pc # "pass2" /\ pc' = "pass2") => (pc = "ret1" /\ error = NO_ERROR)
           /\ (out_file' # out_file) =>
                (pc = "ret2" /\ error = NO_ERROR /\ idx > Len(lines))
           /\ (pc = "raised") => (out_file = <<>>) ]_vars

\* pass 2 failed after it had appended a word, the error was printed and
\* no output file exists
C2_Witness ==
    /\ pc = "done"
    /\ error # NO_ERROR
    /\ Len(machine_instructions) >= 1
    /\ Len(stdout) = 1
    /\ out_file = <<>>

\* the line binds a name in pass 1: a define, a label-only line, or an
\* instruction or data line with a leading label
BindsName(l) ==
    \/ MatchDefine(l)
    \/ MatchLabel(l)
    \/ IsInstrOrData(l) /\ l.name # NoToken

\* C3: in pass 1 every attempt to bind a name that is already in the symbol
\* table returns the redefinition error, every attempt to bind DEPTH returns
\* the reserved-symbol error, and DEPTH is never a key of the table.
C3_RebindingFails ==
    /\ [](DEPTH_NAME \notin DOMAIN symbol_def_to_num)
    /\ [][ (AtLine("pass1") /\ BindsName(lines[idx])) =>
              /\ (lines[idx].name = DEPTH_NAME) =>
                    (pc' = "ret1" /\ error' = DEPTH_DEFINE)
              /\ (lines[idx].name \in DOMAIN symbol_def_to_num) =>
                    (pc' = "ret1" /\ error' = DEFINE_REDEF) ]_vars

\* the line is handled by the shape-2 parser in pass 2
IsShape2(l) == ~IsBlank(l) /\ ~IsComment(l) /\ ~MatchType1(l) /\ MatchType2(l)

\* the line is handled by the shape-3 parser in pass 2
IsShape3(l) ==
    /\ ~IsBlank(l) /\ ~IsComment(l) /\ ~MatchType1(l) /\ ~MatchType2(l)
    /\ MatchType3(l)

\* the operand of the line, as a literal or through the symbol table
Operand(l) == resolve_operand(Group5(l.opnd), symbol_def_to_num)

\* pass 2 appends exactly one word, tagged as an instruction, and goes on
AcceptsInstruction ==
    /\ pc' = "pass2"
    /\ idx' = idx + 1
    /\ Len(machine_instructions') = Len(machine_instructions) + 1
    /\ SubSeq(machine_instructions', 1, Len(machine_instructions)) = machine_instructions
    /\ is_inst' = Append(is_inst, TRUE)

\* pass 2 returns the error and appends nothing
FailsWith(err) ==
    /\ pc' = "ret2"
    /\ error' = err
    /\ machine_instructions' = machine_instructions
    /\ is_inst' = is_inst

LastWord(words) == words[Len(words)]

\* C4: in pass 2 a shape-2 instruction other than mvt whose operand resolves
\* to imm is accepted iff 0 <= imm <= 0x1FF and fails with the
\* oversized-immediate error otherwise; the low 9 bits of the word are imm.
C4_ImmediateRange ==
    [][ (/\ AtLine("pass2")
         /\ IsShape2(lines[idx])
         /\ lines[idx].op # "mvt"
         /\ Operand(lines[idx]).found) =>
            LET imm == Operand(lines[idx]).imm
            IN  IF 0 <= imm /\ imm <= 511
                THEN AcceptsInstruction /\ LastWord(machine_instructions') % 512 = imm
                ELSE FailsWith(BIG_IMMED) ]_vars

\* pass 2 has just accepted a shape-2 instruction whose operand is a symbol
\* of value 0x1FF
C4_Witness ==
    /\ pc = "pass2"
    /\ idx > 1
    /\ IsShape2(lines[idx - 1])
    /\ lines[idx - 1].op # "mvt"
    /\ lines[idx - 1].opnd \in DOMAIN symbol_def_to_num
    /\ Operand(lines[idx - 1]).imm = 511
    /\ Len(machine_instructions) >= 1
    /\ emit_line[Len(emit_line)] = idx - 1
    /\ LastWord(machine_instructions) % 512 = 511

\* C5: in pass 2 an mvt whose operand resolves to imm is accepted iff the
\* low 8 bits of imm are zero and fails with the bad-immediate error
\* otherwise; the low 9 bits of the word are imm >> 8, for every imm.
C5_MvtImmediate ==
    [][ (/\ AtLine("pass2")
         /\ IsShape2(lines[idx])
         /\ lines[idx].op = "mvt"
         /\ Operand(lines[idx]).found) =>
            LET imm == Operand(lines[idx]).imm
            IN  IF imm % 256 = 0
                THEN AcceptsInstruction
                     /\ LastWord(machine_instructions') % 512 = imm \div 256
                ELSE FailsWith(BAD_IMMED) ]_vars

\* C6: in pass 2 a branch whose target resolves to a value >= depth_words
\* fails with the oversized-branch error and appends nothing, a branch to a
\* smaller target appends exactly one instruction word; depth_words is the
\* value pass 1 left.
C6_BranchRange ==
    /\ [][ (/\ AtLine("pass2")
            /\ IsShape3(lines[idx])
            /\ Operand(lines[idx]).found) =>
               IF Operand(lines[idx]).imm >= depth_words
               THEN FailsWith(BIG_BRANCH)
               ELSE AcceptsInstruction ]_vars
    /\ [][ (pc \in {"ret1", "pass2", "ret2"}) => (depth_words' = depth_words) ]_vars

\* pass 2 has just accepted a branch to a label whose address is the last
\* one of a memory whose depth a directive has set
C6_Witness ==
    /\ pc = "pass2"
    /\ idx > 1
    /\ IsShape3(lines[idx - 1])
    /\ depth_words # DEFAULT_DEPTH
    /\ lines[idx - 1].opnd \in DOMAIN symbol_def_to_num
    /\ Operand(lines[idx - 1]).imm = depth_words - 1
    /\ Len(machine_instructions) >= 1
    /\ emit_line[Len(emit_line)] = idx - 1
    /\ is_inst[Len(is_inst)]

\* the mnemonic and the register as the disassembly writes them
MnemonicText(op) == INSTR_VAL_TO_STR[INSTR_STR_TO_VAL[op] + 1]

RegisterText(r) == REG_VAL_TO_STR[REG_STR_TO_VAL[r] + 1]

ConditionText(op) == IF BranchCond(op) = "" THEN "  " ELSE BranchCond(op)

\* the disassembly of the instruction of line l, written from the line
SourceText(l) ==
    IF MatchType1(l)
    THEN MnemonicText(l.op) \o " " \o RegisterText(l.ra) \o ", "
         \o (IF l.op \in {"ld", "st"} THEN "[" \o RegisterText(l.opnd) \o "]"
             ELSE RegisterText(l.opnd))
         \o " %"
    ELSE IF MatchType2(l)
    THEN MnemonicText(l.op) \o " " \o RegisterText(l.ra) \o ", #0x"
         \o Hex04(Operand(l).imm) \o " %"
    ELSE "b" \o ConditionText(l.op) \o "  #0x" \o Hex04(Operand(l).imm) \o " %"

\* C7: the disassembly of the word of every shape-1, shape-2 and shape-3
\* instruction that pass 2 accepts shows the mnemonic, the registers and the
\* immediate or branch target of the instruction.
C7_RoundTrip ==
    [][ (/\ AtLine("pass2")
         /\ MatchType1(lines[idx]) \/ MatchType2(lines[idx]) \/ MatchType3(lines[idx])
         /\ Len(machine_instructions') = Len(machine_instructions) + 1) =>
            instruction_to_comment(LastWord(machine_instructions'))
                = SourceText(lines[idx]) ]_vars

\* C8: from the start of pass 2 on, and when the output file is written,
\* the Program has at most depth_words words.
C8_ProgramFitsDepth ==
    pc \in {"pass2", "ret2", "done"} => Len(machine_instructions) <= depth_words

\* C9: every word of the Program is an unsigned integer of 16 bits.
C9_WordsAre16Bit ==
    \A k \in 1..Len(machine_instructions) : machine_instructions[k] \in 0..65535

\* the line matches no pattern of pass 1
Unrecognized(l) ==
    /\ ~IsBlank(l) /\ ~IsComment(l)
    /\ ~MatchDepthDef(l) /\ ~MatchDefine(l) /\ ~MatchLabel(l)
    /\ ~IsInstrOrData(l)

\* C10: in pass 1 a line that matches no pattern makes the pass print a
\* diagnostic, leaves the address counter unchanged and lets the pass go on
\* with the next line.
C10_UnrecognizedLineTolerated ==
    [][ (AtLine("pass1") /\ Unrecognized(lines[idx])) =>
            /\ pc' = "pass1"
            /\ idx' = idx + 1
            /\ curr_instr_num' = curr_instr_num
            /\ stdout' = Append(stdout, "Error: can't parse assembly code on line "
                                          \o DecStr(line)) ]_vars

\* the run has failed: an error was returned, or an exception left a pass
RunFailed == pc = "raised" \/ (pc = "done" /\ error # NO_ERROR)

\* C11: a run that fails has printed exactly one diagnostic line, and the
\* failing pass stops at the line of the error: the loop does not advance
\* past it.
C11_OneDiagnosticPerFailure ==
    /\ [](RunFailed => Len(stdout) = 1)
    /\ [][ (pc \in {"pass1", "pass2"} /\ pc' \in {"ret1", "ret2"} /\ error' # NO_ERROR) =>
              (idx' = idx /\ line' = line) ]_vars
    /\ [][ (pc \notin {"start", "pass1", "ret1", "pass2"}) => (idx' = idx) ]_vars

\* C12 as stated: depth_words leaves its default at most once, and only by
\* a depth directive that no instruction or data line precedes.
C12_DepthSetOnce ==
    [][ (depth_words' # depth_words) =>
            /\ AtLine("pass1")
            /\ MatchDepthDef(lines[idx])
            /\ depth_words = DEFAULT_DEPTH
            /\ \A j \in 1..(idx - 1) : ~IsInstrOrData(lines[j]) ]_vars

\* C12, amended: depth_words is 256 at the start and changes only in pass 1
\* and only by a depth directive; every depth directive with an even number
\* sets depth_words to that number, also when another depth directive or an
\* instruction or data line precedes it, and pass 1 goes on.
C12_DepthFollowsDirectives ==
    /\ [](pc = "start" => depth_words = 256)
    /\ [][ (depth_words' # depth_words) =>
              (AtLine("pass1") /\ MatchDepthDef(lines[idx])) ]_vars
    /\ [][ (/\ AtLine("pass1")
            /\ MatchDepthDef(lines[idx])
            /\ PyInt(lines[idx].opnd).ok
            /\ PyInt(lines[idx].opnd).val % 2 = 0) =>
              /\ depth_words' = PyInt(lines[idx].opnd).val
              /\ pc' = "pass1"
              /\ idx' = idx + 1 ]_vars

\* pass 1 has processed a depth directive, an instruction and a second
\* depth directive of another number, which depth_words now holds
C12_Witness ==
    /\ pc = "pass1"
    /\ idx = 4
    /\ MatchDepthDef(lines[1])
    /\ IsInstrOrData(lines[2])
    /\ MatchDepthDef(lines[3])
    /\ PyInt(lines[1].opnd).val # PyInt(lines[3].opnd).val
    /\ PyInt(lines[1].opnd).val # DEFAULT_DEPTH
    /\ depth_words = PyInt(lines[3].opnd).val

(***************************************************************************)
(* ErrorCodes.get_error_message on its own: the kinds around 0..12 and the *)
(* line numbers a caller may pass.                                         *)
(***************************************************************************)
KindSpan == 3
MaxMsgLine == 6

MsgKinds == (NO_ERROR - KindSpan)..(UNKNOWN + KindSpan)

InitMsg ==
    \E kind \in MsgKinds, n \in 1..MaxMsgLine :
        /\ lines = <<>>
        /\ pc = "msg"
        /\ idx = 0
        /\ line = n
        /\ curr_instr_num = -1
        /\ depth_words = DEFAULT_DEPTH
        /\ symbol_def_to_num = EmptyDict
        /\ machine_instructions = <<>>
        /\ is_inst = <<>>
        /\ error = kind
        /\ stdout = <<>>
        /\ out_file = <<>>
        /\ exc = ""
        /\ emit_line = <<>>

\* lines 23-57 of ErrorCodes.py: the message is returned and printed, or the
\* dictionary lookup raises
GetErrorMessage ==
    /\ pc = "msg"
    /\ LET m == get_error_message(error, line, depth_words, curr_instr_num)
       IN  IF m.raised
           THEN /\ pc' = "raised"
                /\ exc' = "KeyError"
                /\ UNCHANGED stdout
           ELSE /\ pc' = "done"
                /\ stdout' = Append(stdout, m.text)
                /\ UNCHANGED exc
    /\ UNCHANGED <<lines, idx, line, curr_instr_num, depth_words, symbol_def_to_num,
                   machine_instructions, is_inst, error, out_file, emit_line>>

NextMsg == GetErrorMessage

SpecMsg == InitMsg /\ [][NextMsg]_vars

\* C13: get_error_message raises for no integer kind: a kind in 0..12 gives
\* its message (empty for 0 only), a kind below 0 or above 12 gives
\* "ERROR: UNKNOWN".
C13_MessageNeverRaises ==
    /\ pc # "raised"
    /\ exc = ""
    /\ (pc = "done" /\ lines = <<>>) =>
          /\ Len(stdout) = 1
          /\ (error < NO_ERROR \/ error >= UNKNOWN) => stdout[1] = "ERROR: UNKNOWN"
          /\ (error = NO_ERROR) => stdout[1] = ""
          /\ (error > NO_ERROR /\ error < UNKNOWN) => stdout[1] \notin {"", "ERROR: UNKNOWN"}

\* the numbers of the source lines classified as instruction or data
\* directive, in source order
InstrLines ==
    SelectSeq([j \in 1..Len(lines) |-> j], LAMBDA j : IsInstrOrData(lines[j]))

\* C14: when pass 1 has returned without error its counter plus one is the
\* number of instruction and data lines; when pass 2 has completed without
\* error the program holds one word per such line, in source order (the word
\* of the k-th such line at address k-1, with that line's tag), the tag list
\* is as long as the word list, and the number of words is that same count.
C14_OneWordPerInstrLine ==
    /\ (pc = "ret1" /\ error = NO_ERROR) => curr_instr_num + 1 = Len(InstrLines)
    /\ BothPassesSucceeded =>
          /\ Len(machine_instructions) = Len(InstrLines)
          /\ Len(is_inst) = Len(machine_instructions)
          /\ curr_instr_num + 1 = Len(machine_instructions)
          /\ emit_line = InstrLines
          /\ \A k \in 1..Len(InstrLines) :
                LET o == parse_lines_line(lines[InstrLines[k]], symbol_def_to_num,
                                          depth_words)
                IN  /\ o.parsed
                    /\ o.r.error = NO_ERROR
                    /\ <<machine_instructions[k]>> = o.r.sub_mif
                    /\ is_inst[k] = o.tag

\* both passes have succeeded on a file of two instruction or data lines
\* with a line that emits nothing between them
C14_Witness ==
    /\ BothPassesSucceeded
    /\ Len(machine_instructions) >= 2
    /\ emit_line[2] > emit_line[1] + 1
    /\ \E k \in 1..Len(is_inst) : ~is_inst[k]

(***************************************************************************)
(* Specification of the brackets: shape-1 instructions whose second         *)
(* operand is written plain, as [rb], and with every other use of brackets  *)
(* that INSTR_TYPE1_REGEX lets through, with a label redefined in between.  *)
(***************************************************************************)
BracketLineSet ==
    { L_comment,
      Label(T_A),
      RegReg(T_A, "sub", T_r1, T_r0),
      RegReg(NoToken, "mv", T_r0, T_r1),
      RegInd(NoToken, "mv", T_r0, T_r1),
      RegInd(NoToken, "ld", T_r0, T_r1),
      RegInd(NoToken, "st", T_r1, T_r0),
      MkLine("instr", NoToken, "mv", T_r0, "[", T_r1, ""),
      MkLine("instr", NoToken, "add", T_r0, "", T_r1, "]"),
      MkLine("instr", NoToken, "and", T_r1, "[[", T_r0, "]]"),
      MkLine("instr", NoToken, "sub", T_r1, "[", T_r0, "]]]"),
      MkLine("instr", NoToken, "ld", T_r0, "[", T_r1, "") }

InitBracket == \E input \in Programs(BracketLineSet, MaxLines) : InitOn(input)

SpecBracket == InitBracket /\ [][Next]_vars

\* the second operand of the line is written with some bracket
Bracketed(l) == l.pre # "" \/ l.post # ""

\* C15: in pass 2 every shape-1 line with opcode mv, add, sub or and whose
\* second operand is written with any brackets is rejected with an error and
\* emits no word; a shape-1 line with a bracketed second operand that is
\* encoded is an ld or an st.
C15_BracketsOnlyForLdSt ==
    /\ [][ (/\ AtLine("pass2")
            /\ MatchType1(lines[idx])
            /\ lines[idx].op \in {"mv", "add", "sub", "and"}
            /\ Bracketed(lines[idx])) =>
              /\ pc' = "ret2"
              /\ error' # NO_ERROR
              /\ machine_instructions' = machine_instructions
              /\ is_inst' = is_inst ]_vars
    /\ [][ (/\ AtLine("pass2")
            /\ MatchType1(lines[idx])
            /\ Bracketed(lines[idx])
            /\ AcceptsInstruction) =>
              (lines[idx].op \in {"ld", "st"}) ]_vars

====
